---- MODULE Spec2Model ----
(***************************************************************************)
(* MiniDataLoader (src/src/dataloader.ts) on the Node.js event loop.       *)
(*                                                                         *)
(* The loader's own state is the field `queue`.  Everything else it does   *)
(* goes through the runtime: queueMicrotask, process.nextTick, the promise *)
(* returned by load and the promise returned by the loader function.  The  *)
(* model therefore carries the runtime's two deferred queues (microtasks   *)
(* and next ticks), the promises handed out by load, and one record per    *)
(* invocation of the loader function.                                      *)
(*                                                                         *)
(* Sequences are 1-based here and 0-based in the source: index i of the    *)
(* source is position i + 1 of the model.                                  *)
(***************************************************************************)
EXTENDS Integers, Sequences, FiniteSets, TLC

\* Bound of the model: the number of load calls made in one behaviour.
MaxLoads == 3

\* `undefined`: what response[index] yields past the end of the response, and
\* the value of a promise that has not been fulfilled.
Undefined == 0

\* The keys the callers load.  The loader copies keys and never inspects
\* them, so two keys are enough to tell a repeated key from a different one.
Keys == {1, 2}

\* The values a loader function answers with.  The loader copies values and
\* never inspects them; a present entry at position i (1-based) of a response
\* is the value 10 * i, so that a value delivered to the wrong request is
\* visible, and an absent entry is undefined.
Present(i) == 10 * i

\* "no continuation" / "no parent" / "no re-entrant load".
None == 0

\* Loads that are not made by a task's synchronous code use one
\* representative key each; the synchronous loads range over all of Keys, so
\* these loads meet both an equal and a different key in the queue.
\* What a caller does once the promise it awaited is fulfilled: nothing, or
\* load(2) (load(1); await; load(2)).
AfterAwait == {None, 2}
\* What a continuation left pending by a caller loads.
PendingLoads == {1}
\* What the loader function itself loads while it runs: nothing, or load(1).
InnerLoads == {None, 1}

VARIABLES
    queue,        \* this.queue: the QueueItems not yet dispatched
    microtasks,   \* the runtime's microtask queue (promise jobs, queueMicrotask)
    nextTicks,    \* the runtime's process.nextTick queue: pending dispatchQueue calls
    promises,     \* promises[id]: the promise returned by the id-th load call
    calls,        \* calls[b]: the key list of the b-th invocation of this.loader
    batches,      \* batches[b]: currentQueue and the loader promise of invocation b
    running,      \* TRUE while a task's synchronous code is on the stack
    phase,        \* which deferred queue the runtime is draining
    dispatches,   \* history: the number of dispatchQueue calls made so far
    burst         \* history: the loads made by the current task's synchronous code

vars == <<queue, microtasks, nextTicks, promises, calls, batches, running, phase,
          dispatches, burst>>

\* The part of the state that the loader's code and the promise machinery touch.
State ==
    [queue |-> queue, microtasks |-> microtasks, nextTicks |-> nextTicks,
     promises |-> promises, calls |-> calls, batches |-> batches,
     dispatches |-> dispatches]

Becomes(st) ==
    /\ queue' = st.queue
    /\ microtasks' = st.microtasks
    /\ nextTicks' = st.nextTicks
    /\ promises' = st.promises
    /\ calls' = st.calls
    /\ batches' = st.batches
    /\ dispatches' = st.dispatches

-----------------------------------------------------------------------------
(* Jobs of the microtask queue *)

\* () => process.nextTick(this.dispatchQueue)
ArmJob == [type |-> "arm", batch |-> 0, key |-> 0, parent |-> 0]
\* (response) => { currentQueue.forEach(...) } of invocation b
ThenJob(b) == [type |-> "then", batch |-> b, key |-> 0, parent |-> 0]
\* a caller's continuation that calls load(key); parent is the request whose
\* fulfilment it awaited, None for a continuation that was pending on its own
UserJob(key, parent) == [type |-> "user", batch |-> 0, key |-> key, parent |-> parent]

-----------------------------------------------------------------------------
(* Promises returned by load *)

\* new Promise<V>((resolve) => ...): pending; `next` is the key the caller
\* loads once this promise is fulfilled (None: the caller loads nothing more).
NewPromise(key, next, parent) ==
    [key |-> key, state |-> "pending", value |-> Undefined, resolved |-> 0,
     next |-> next, parent |-> parent]

\* item.resolve(value): the first call fulfils the promise and queues the
\* caller's continuation as a microtask; a later call changes nothing but is
\* counted.
resolve(st, id, value) ==
    LET p == st.promises[id] IN
    IF p.state = "pending"
    THEN [st EXCEPT
            !.promises[id] = [p EXCEPT !.state = "fulfilled", !.value = value,
                                       !.resolved = 1],
            !.microtasks = IF p.next = None THEN @
                           ELSE Append(@, UserJob(p.next, id))]
    ELSE [st EXCEPT !.promises[id] = [p EXCEPT !.resolved = p.resolved + 1]]

-----------------------------------------------------------------------------
(* MiniDataLoader *)

\* (variant) load that flushes at once instead of deferring the flush
loadAndDispatch(st, key, next, parent) ==
    LET id == Len(st.promises) + 1
        currentQueue == Append(st.queue, [key |-> key, resolve |-> id])
    IN [st EXCEPT
          !.promises = Append(@, NewPromise(key, next, parent)),
          !.queue = <<>>,
          !.calls = Append(@, [i \in 1..Len(currentQueue) |-> currentQueue[i].key]),
          !.batches = Append(@, [currentQueue |-> currentQueue,
                                 state |-> "pending",
                                 response |-> <<>>])]

\* (variant) load that defers the flush by process.nextTick alone, without
\* the queueMicrotask stage
loadNextTickOnly(st, key, next, parent) ==
    LET id == Len(st.promises) + 1 IN
    [st EXCEPT
        !.promises = Append(@, NewPromise(key, next, parent)),
        !.queue = Append(@, [key |-> key, resolve |-> id]),
        !.nextTicks = @ + 1]

\* (variant) load that schedules a flush only when none is scheduled yet
loadArmsOnce(st, key, next, parent) ==
    LET id == Len(st.promises) + 1
        armed == \/ st.nextTicks > 0
                 \/ \E i \in DOMAIN st.microtasks : st.microtasks[i].type = "arm"
    IN [st EXCEPT
          !.promises = Append(@, NewPromise(key, next, parent)),
          !.queue = Append(@, [key |-> key, resolve |-> id]),
          !.microtasks = IF armed THEN @ ELSE Append(@, ArmJob)]

\* load = (key) => new Promise((resolve) => { this.queue.push({key, resolve});
\*                  queueMicrotask(() => process.nextTick(this.dispatchQueue)) })
load(st, key, next, parent) ==
    LET id == Len(st.promises) + 1 IN
    [st EXCEPT
        !.promises = Append(@, NewPromise(key, next, parent)),
        !.queue = Append(@, [key |-> key, resolve |-> id]),
        !.microtasks = Append(@, ArmJob)]

\* (variant) key list without repeated keys: first occurrences only
keysOfDistinct(currentQueue) ==
    LET first == {i \in 1..Len(currentQueue) :
                     \A j \in 1..(i - 1) : currentQueue[j].key # currentQueue[i].key}
        pick[n \in 0..Len(currentQueue)] ==
            IF n = 0 THEN <<>>
            ELSE IF n \in first THEN Append(pick[n - 1], currentQueue[n].key)
                 ELSE pick[n - 1]
    IN pick[Len(currentQueue)]

\* currentQueue.map((item) => item.key)
keysOf(currentQueue) ==
    [i \in 1..Len(currentQueue) |-> currentQueue[i].key]

\* this.loader(keys).then(callback): the loader function is called with keys
\* and returns a pending promise, to which the callback over currentQueue is
\* attached.  `inner` is a load the loader function itself makes while it
\* runs (None: it makes none).
loader(st, currentQueue, keys, inner) ==
    LET called == [st EXCEPT
                      !.calls = Append(@, keys),
                      !.batches = Append(@, [currentQueue |-> currentQueue,
                                             state |-> "pending",
                                             response |-> <<>>])]
    IN IF inner = None THEN called ELSE load(called, inner, None, None)

\* (variant) dispatchQueue that takes one request per call instead of the
\* whole queue
dispatchQueueOneByOne(st, inner) ==
    LET entered == [st EXCEPT !.dispatches = @ + 1] IN
    IF Len(st.queue) > 0
    THEN loader([entered EXCEPT !.queue = Tail(@)], <<Head(st.queue)>>,
                keysOf(<<Head(st.queue)>>), inner)
    ELSE entered

\* (variant) dispatchQueue without `this.queue = []`
dispatchQueueKeepsQueue(st, inner) ==
    LET entered == [st EXCEPT !.dispatches = @ + 1] IN
    IF Len(st.queue) > 0
    THEN loader(entered, st.queue, keysOf(st.queue), inner)
    ELSE entered

\* (variant) dispatchQueue whose length test is off by one: a snapshot of a
\* single request is cleared but never passed to the loader function
dispatchQueueSkipsSingle(st, inner) ==
    LET currentQueue == st.queue
        cleared == [st EXCEPT !.queue = <<>>, !.dispatches = @ + 1]
    IN IF Len(currentQueue) > 1
       THEN loader(cleared, currentQueue, keysOf(currentQueue), inner)
       ELSE cleared

\* (variant) dispatchQueue without the `currentQueue.length > 0` test
dispatchQueueNoGuard(st, inner) ==
    LET currentQueue == st.queue
        cleared == [st EXCEPT !.queue = <<>>, !.dispatches = @ + 1]
    IN loader(cleared, currentQueue, keysOf(currentQueue), inner)

\* dispatchQueue = () => { const currentQueue = [...this.queue]; this.queue = [];
\*                         if (currentQueue.length > 0) { ... } }
dispatchQueue(st, inner) ==
    LET currentQueue == st.queue
        cleared == [st EXCEPT !.queue = <<>>, !.dispatches = @ + 1]
    IN IF Len(currentQueue) > 0
       THEN loader(cleared, currentQueue, keysOf(currentQueue), inner)
       ELSE cleared

\* (variant) response[index + 1]
AtShifted(response, index) ==
    IF index + 2 \in DOMAIN response THEN response[index + 2] ELSE Undefined

\* response[index] (0-based index): undefined past the end of the response
At(response, index) ==
    IF index + 1 \in DOMAIN response THEN response[index + 1] ELSE Undefined

\* (variant) response.forEach((value, index) => currentQueue[index].resolve(value)):
\* iterates the response, so requests past its end are never resolved
RECURSIVE forEachOverResponse(_, _, _, _)
forEachOverResponse(st, currentQueue, response, index) ==
    IF index >= Len(currentQueue) \/ index >= Len(response) THEN st
    ELSE forEachOverResponse(
             resolve(st, currentQueue[index + 1].resolve, response[index + 1]),
             currentQueue, response, index + 1)

\* currentQueue.forEach((item, index) => item.resolve(response[index])),
\* from position `index` (0-based) on
RECURSIVE forEach(_, _, _, _)
forEach(st, currentQueue, response, index) ==
    IF index >= Len(currentQueue) THEN st
    ELSE forEach(resolve(st, currentQueue[index + 1].resolve, At(response, index)),
                 currentQueue, response, index + 1)

\* (variant) a callback that walks the loader's live queue instead of the
\* snapshot taken by its own dispatchQueue call
thenCallbackLiveQueue(st, b) ==
    LET done == forEach(st, st.queue, st.batches[b].response, 0)
    IN [done EXCEPT !.batches[b].state = "delivered"]

\* the callback passed to .then, run for invocation b once the loader promise
\* is fulfilled with batches[b].response
thenCallback(st, b) ==
    LET done == forEach(st, st.batches[b].currentQueue, st.batches[b].response, 0)
    IN [done EXCEPT !.batches[b].state = "delivered"]

\* (variant) a rejection handler that resets the loader's queue
rejectedResetsQueue(st, b) ==
    [st EXCEPT !.batches[b].state = "rejected", !.queue = <<>>]

\* this.loader(keys).then(callback) when the loader promise of invocation b is
\* rejected: .then was given no rejection handler and the queue items hold no
\* reject function, so the callback never runs and nothing of the loader or of
\* the promises it handed out changes.
rejected(st, b) ==
    [st EXCEPT !.batches[b].state = "rejected"]

-----------------------------------------------------------------------------
(* The runtime: tasks, next ticks, microtasks *)

Idle == ~running /\ microtasks = <<>> /\ nextTicks = 0

\* After a task's synchronous code returns, Node runs the next-tick queue
\* until it is empty, then the microtask queue until it is empty, and repeats
\* until both are empty.
PhaseAfter(p, st) ==
    IF st.microtasks = <<>> /\ st.nextTicks = 0 THEN "tick" ELSE p

NoBurst == [keys |-> <<>>, base |-> 0, clean |-> FALSE]

\* Loads still allowed by the bound, counting continuations already queued.
Budget(st) ==
    MaxLoads - Len(st.promises)
      - Cardinality({i \in DOMAIN st.microtasks : st.microtasks[i].type = "user"})
      - Cardinality({i \in DOMAIN st.promises :
                        st.promises[i].state = "pending" /\ st.promises[i].next # None})

Init ==
    /\ queue = <<>>
    /\ microtasks = <<>>
    /\ nextTicks = 0
    /\ promises = <<>>
    /\ calls = <<>>
    /\ batches = <<>>
    /\ dispatches = 0
    /\ running = FALSE
    /\ phase = "tick"
    /\ burst = NoBurst

\* A task (an incoming request, a timer) starts running the caller's code;
\* within the bound, only tasks that can still load are started.
StartTask ==
    /\ Idle
    /\ Budget(State) >= 1
    /\ running' = TRUE
    /\ burst' = [keys |-> <<>>, base |-> Len(calls), clean |-> TRUE]
    /\ UNCHANGED <<queue, microtasks, nextTicks, promises, calls, batches, dispatches, phase>>

\* The caller's synchronous code calls load(key); `next` is the key it will
\* load after awaiting the result (None: nothing).
CallLoad ==
    /\ running
    /\ \E key \in Keys, next \in AfterAwait :
          /\ Budget(State) >= (IF next = None THEN 1 ELSE 2)
          /\ Becomes(load(State, key, next, None))
          /\ burst' = [burst EXCEPT !.keys = Append(@, key)]
    /\ UNCHANGED <<running, phase>>

\* The caller's synchronous code leaves a continuation pending that will call
\* load(key): Promise.resolve().then(() => loader.load(key)).
CallLater ==
    /\ running
    /\ Budget(State) >= 1
    /\ \E key \in PendingLoads :
          microtasks' = Append(microtasks, UserJob(key, None))
    /\ UNCHANGED <<queue, nextTicks, promises, calls, batches, dispatches, running, phase,
                   burst>>

\* The task's synchronous code returns to the runtime.
EndTask ==
    /\ running
    /\ running' = FALSE
    /\ phase' = "tick"
    /\ UNCHANGED <<queue, microtasks, nextTicks, promises, calls, batches, dispatches, burst>>

\* The runtime runs the next process.nextTick callback: dispatchQueue.
RunTick ==
    /\ ~running
    /\ nextTicks > 0
    /\ phase = "tick" \/ microtasks = <<>>
    /\ \E inner \in InnerLoads :
          LET st == dispatchQueue([State EXCEPT !.nextTicks = @ - 1], inner) IN
          /\ inner # None => (queue # <<>> /\ Budget(State) >= 1)
          /\ Becomes(st)
          /\ phase' = PhaseAfter("tick", st)
          /\ burst' = IF inner # None THEN [burst EXCEPT !.clean = FALSE] ELSE burst
    /\ UNCHANGED running

MicrotaskReady(type) ==
    /\ ~running
    /\ microtasks # <<>>
    /\ phase = "micro" \/ nextTicks = 0
    /\ Head(microtasks).type = type

\* The runtime runs () => process.nextTick(this.dispatchQueue).
RunArm ==
    /\ MicrotaskReady("arm")
    /\ LET st == [State EXCEPT !.microtasks = Tail(@), !.nextTicks = @ + 1] IN
          /\ Becomes(st)
          /\ phase' = PhaseAfter("micro", st)
    /\ UNCHANGED <<running, burst>>

\* The runtime runs the .then callback of a fulfilled loader promise.
RunThen ==
    /\ MicrotaskReady("then")
    /\ LET st == thenCallback([State EXCEPT !.microtasks = Tail(@)],
                              Head(microtasks).batch) IN
          /\ Becomes(st)
          /\ phase' = PhaseAfter("micro", st)
    /\ UNCHANGED <<running, burst>>

\* The runtime runs a caller's continuation, which calls load.
RunUser ==
    /\ MicrotaskReady("user")
    /\ LET job == Head(microtasks)
           st == load([State EXCEPT !.microtasks = Tail(@)], job.key, None, job.parent) IN
          /\ Becomes(st)
          /\ phase' = PhaseAfter("micro", st)
    /\ burst' = [burst EXCEPT !.clean = FALSE]
    /\ UNCHANGED running

\* The response lists a loader function can produce for n keys: at most n
\* entries, each present or undefined.
Responses(n) ==
    UNION {{r \in [1..m -> {Undefined} \cup {Present(i) : i \in 1..m}] :
               \A i \in 1..m : r[i] \in {Undefined, Present(i)}} : m \in 0..n}

\* The promise returned by the loader function settles while code of the
\* loader function runs: inside the dispatchQueue call that invoked it, in a
\* later microtask, or in a later task (a timer, as in batchLoadAuthors).  The
\* callback of .then is queued behind the microtasks already queued and runs
\* only after the pending next ticks, so settling inside a dispatchQueue call
\* is the same as settling once the next ticks have run.
CanSettle == ~running /\ nextTicks = 0

\* The promise returned by the loader function for invocation b is fulfilled
\* with `response`: its .then callback becomes a microtask.
LoaderFulfils ==
    /\ CanSettle
    /\ \E b \in DOMAIN batches :
          /\ batches[b].state = "pending"
          /\ \E response \in Responses(Len(calls[b])) :
                LET st == [State EXCEPT !.batches[b].state = "fulfilled",
                                        !.batches[b].response = response,
                                        !.microtasks = Append(@, ThenJob(b))] IN
                /\ Becomes(st)
                /\ phase' = PhaseAfter(phase, st)
    /\ burst' = IF Idle THEN NoBurst ELSE burst
    /\ UNCHANGED running

\* The promise returned by the loader function for invocation b is rejected.
LoaderRejects ==
    /\ CanSettle
    /\ \E b \in DOMAIN batches :
          /\ batches[b].state = "pending"
          /\ Becomes(rejected(State, b))
    /\ burst' = IF Idle THEN NoBurst ELSE burst
    /\ UNCHANGED <<running, phase>>

Next ==
    \/ StartTask
    \/ CallLoad
    \/ CallLater
    \/ EndTask
    \/ RunTick
    \/ RunArm
    \/ RunThen
    \/ RunUser
    \/ LoaderFulfils
    \/ LoaderRejects

Spec == Init /\ [][Next]_vars

-----------------------------------------------------------------------------
(* Vocabulary of the properties *)

\* the positions of the snapshot of invocation b
Positions(b) == DOMAIN batches[b].currentQueue

\* the request (promise id) at position i of the snapshot of invocation b
Request(b, i) == batches[b].currentQueue[i].resolve

\* the requests of invocation b, in snapshot order
Requests(b) == [i \in Positions(b) |-> Request(b, i)]

\* the invocations whose snapshot holds request id
BatchesOf(id) == {b \in DOMAIN batches : \E i \in Positions(b) : Request(b, i) = id}

\* no dispatchQueue call is pending, neither armed nor about to be armed
NoFlushPending ==
    /\ nextTicks = 0
    /\ \A i \in DOMAIN microtasks : microtasks[i].type # "arm"

-----------------------------------------------------------------------------
\* C1: N >= 1 loads made by one task's synchronous code on an otherwise idle
\* loader (no other load is made in that turn) lead to exactly one invocation
\* of the loader function: none while the synchronous code is still running,
\* at most one afterwards, exactly one once every scheduled dispatchQueue has
\* run, and its key list is the keys of the N loads in call order.
C1_BurstIsOneBatch ==
    (burst.clean /\ burst.keys # <<>>) =>
        /\ running => Len(calls) = burst.base
        /\ Len(calls) \in {burst.base, burst.base + 1}
        /\ Len(calls) = burst.base + 1 => calls[burst.base + 1] = burst.keys
        /\ (~running /\ NoFlushPending) => Len(calls) = burst.base + 1

C1_Witness ==
    /\ burst.clean
    /\ Len(burst.keys) >= 3
    /\ Idle
    /\ Len(calls) = burst.base + 1
    /\ calls[burst.base + 1] = burst.keys

\* C3: a load made only after an earlier load's promise was fulfilled is
\* never in the same invocation as that earlier load: its invocation comes
\* strictly later.  For the caller that does load(1), awaits it, then
\* load(2) and nothing else, the invocations are [1] and then [2].
C3_WindowSeparation ==
    /\ \A id \in DOMAIN promises :
          promises[id].parent # None =>
             /\ promises[promises[id].parent].state = "fulfilled"
             /\ \A b \in BatchesOf(id) :
                   \E a \in BatchesOf(promises[id].parent) : a < b
    /\ ( /\ Len(promises) = 2
         /\ promises[1].key = 1 /\ promises[2].key = 2
         /\ promises[2].parent = 1 )
       => /\ calls \in {<< <<1>> >>, << <<1>>, <<2>> >>}
          /\ promises[2].state = "fulfilled" => calls = << <<1>>, <<2>> >>

C3_Witness ==
    /\ Len(promises) = 2
    /\ promises[1].key = 1 /\ promises[2].key = 2
    /\ promises[2].parent = 1
    /\ promises[2].state = "fulfilled"
    /\ calls = << <<1>>, <<2>> >>

\* C2: once the .then callback of invocation b has run on the response
\* `values`, the promise of the i-th request of its snapshot is fulfilled
\* with values[i], for every position i the response has.
C2_RoutedByPosition ==
    \A b \in DOMAIN batches :
        batches[b].state = "delivered" =>
            \A i \in Positions(b) :
                i \in DOMAIN batches[b].response =>
                    /\ promises[Request(b, i)].state = "fulfilled"
                    /\ promises[Request(b, i)].value = batches[b].response[i]

\* three loads in one invocation, answered with 10, 20, 30: the promises hold
\* 10, 20 and 30 respectively
C2_Witness ==
    \E b \in DOMAIN batches :
        /\ batches[b].state = "delivered"
        /\ Len(calls[b]) = 3
        /\ batches[b].response = <<10, 20, 30>>
        /\ promises[Request(b, 1)].value = 10
        /\ promises[Request(b, 2)].value = 20
        /\ promises[Request(b, 3)].value = 30

\* C4: when the loader promise of an invocation is rejected, every request
\* of its snapshot gets the failure: once the runtime has run everything that
\* was queued, none of them is still pending.
C4_RejectionReachesRequests ==
    \A b \in DOMAIN batches :
        (batches[b].state = "rejected" /\ Idle) =>
            \A i \in Positions(b) :
                promises[Request(b, i)].state # "pending"

\* every loader promise has completed and its outcome has been handled
Quiescent ==
    /\ Idle
    /\ \A b \in DOMAIN batches : batches[b].state \in {"delivered", "rejected"}

\* C5: every promise returned by load is fulfilled exactly once: when the
\* runtime has nothing left to run and every loader promise has completed,
\* each promise has been settled by exactly one resolve call.
C5_FulfilledExactlyOnce ==
    Quiescent => \A id \in DOMAIN promises : promises[id].resolved = 1

C7_LoadNeverInvokes ==
    [][Len(promises') = Len(promises) + 1 =>
         LET id == Len(promises') IN
         /\ queue' # <<>>
         /\ queue'[Len(queue')] = [key |-> promises'[id].key, resolve |-> id]
         /\ \A b \in DOMAIN batches' :
               \A i \in DOMAIN batches'[b].currentQueue :
                   batches'[b].currentQueue[i].resolve # id
         /\ microtasks' # <<>> /\ microtasks'[Len(microtasks')] = ArmJob
         /\ nextTicks' = nextTicks =>
               (calls' = calls /\ batches' = batches /\ queue' = Append(queue, queue'[Len(queue')]))
         /\ Len(calls') <= Len(calls) + 1]_vars

\* a load has been made during a task's synchronous code and nothing was
\* invoked
C7_Witness ==
    /\ running
    /\ Len(burst.keys) >= 2
    /\ Len(queue) >= 2
    /\ Len(calls) = burst.base

\* C8: repeated keys are not merged: the key list of an invocation has one
\* entry per request of its snapshot, and two requests of one snapshot with
\* the same key are two promises, each fulfilled with the value at its own
\* position.
C8_NoDeduplication ==
    \A b \in DOMAIN batches :
        /\ Len(calls[b]) = Len(Requests(b))
        /\ \A i, j \in Positions(b) :
              (i < j /\ promises[Request(b, i)].key = promises[Request(b, j)].key) =>
                 /\ i \in DOMAIN calls[b] /\ j \in DOMAIN calls[b]
                 /\ calls[b][i] = calls[b][j]
                 /\ Request(b, i) # Request(b, j)
                 /\ batches[b].state = "delivered" =>
                       /\ promises[Request(b, i)].value = At(batches[b].response, i - 1)
                       /\ promises[Request(b, j)].value = At(batches[b].response, j - 1)

\* load(2), load(2) invoked as [2, 2] and answered with two different values
C8_Witness ==
    \E b \in DOMAIN batches :
        /\ calls[b] = <<2, 2>>
        /\ batches[b].state = "delivered"
        /\ promises[Request(b, 1)].value = 10
        /\ promises[Request(b, 2)].value = 20

\* C9: when the response has no entry for a position (it is shorter than the
\* key list, or the entry is undefined), the request at that position is
\* fulfilled with undefined by the same callback that fulfils the requests
\* at the present positions with their values.
C9_MissingValueIsUndefined ==
    \A b \in DOMAIN batches :
        batches[b].state = "delivered" =>
            \A i \in Positions(b) :
                /\ promises[Request(b, i)].state = "fulfilled"
                /\ promises[Request(b, i)].resolved = 1
                /\ (i > Len(batches[b].response) \/ At(batches[b].response, i - 1) = Undefined)
                      => promises[Request(b, i)].value = Undefined

\* three keys answered with one value: the first request has it, the other
\* two are fulfilled with undefined
C9_Witness ==
    \E b \in DOMAIN batches :
        /\ Len(calls[b]) = 3
        /\ batches[b].response = <<10>>
        /\ batches[b].state = "delivered"
        /\ promises[Request(b, 1)].value = 10
        /\ \A i \in 2..3 :
              /\ promises[Request(b, i)].state = "fulfilled"
              /\ promises[Request(b, i)].value = Undefined

\* the requests of invocations 1..n, concatenated in invocation order
RECURSIVE Dispatched(_)
Dispatched(n) == IF n = 0 THEN <<>> ELSE Dispatched(n - 1) \o Requests(n)

\* C10: every invocation's key list is the keys, in load order, of the
\* requests loaded since the previous dispatch: the snapshots of the
\* invocations, in order, followed by the queue, are the requests 1, 2, ...
\* in load order, so each request is passed in exactly one invocation or is
\* still queued.
C10_ExactlyTheQueuedRequests ==
    /\ Len(calls) = Len(batches)
    /\ \A b \in DOMAIN batches :
          calls[b] = [i \in Positions(b) |-> promises[Request(b, i)].key]
    /\ Dispatched(Len(batches)) \o [i \in DOMAIN queue |-> queue[i].resolve]
          = [id \in 1..Len(promises) |-> id]
    /\ \A i \in DOMAIN queue : queue[i].key = promises[queue[i].resolve].key

\* two invocations have partitioned three loads
C10_Witness ==
    /\ Len(promises) = 3
    /\ Len(batches) = 2
    /\ queue = <<>>
    /\ Len(calls[1]) + Len(calls[2]) = 3

\* the dispatchQueue calls scheduled and not yet run: next ticks queued, and
\* microtasks that will queue one
PendingFlushes ==
    nextTicks + Cardinality({i \in DOMAIN microtasks : microtasks[i].type = "arm"})

\* the step is a call of dispatchQueue
DispatchStep == dispatches' = dispatches + 1

\* the step is a call of load made outside the loader function
LoadStep == Len(promises') = Len(promises) + 1 /\ dispatches' = dispatches

\* C11: invocations overlap without mixing.  The snapshots of two
\* invocations share no request; a load made by the loader function while it
\* runs is left alone in the queue with its own flush scheduled; and whatever
\* the order in which the loader promises complete, a promise changes only
\* in the callback of the invocation whose snapshot holds it, which gives it
\* the value at its position.
C11_OverlappingBatchesStayApart ==
    /\ [](\A a, b \in DOMAIN batches :
             a < b => \A i \in Positions(a), j \in Positions(b) :
                         Request(a, i) # Request(b, j))
    /\ [][(DispatchStep /\ Len(promises') = Len(promises) + 1) =>
             /\ Len(queue') = 1
             /\ queue'[1].resolve = Len(promises')
             /\ \A i \in DOMAIN batches'[Len(batches')].currentQueue :
                   batches'[Len(batches')].currentQueue[i].resolve # Len(promises')
             /\ \E i \in DOMAIN microtasks' : microtasks'[i].type = "arm"]_vars
    /\ [][\A id \in DOMAIN promises :
             promises'[id] # promises[id] =>
                \E b \in DOMAIN batches :
                   /\ batches[b].state = "fulfilled"
                   /\ batches'[b].state = "delivered"
                   /\ \E i \in Positions(b) :
                         /\ Request(b, i) = id
                         /\ promises'[id].value = At(batches[b].response, i - 1)]_vars

\* two invocations were in flight together and the later one completed
\* first: its request is fulfilled while the earlier one's is still pending
C11_Witness ==
    \E a, b \in DOMAIN batches :
        /\ a < b
        /\ batches[a].state = "pending"
        /\ batches[b].state = "delivered"
        /\ promises[Request(a, 1)].state = "pending"
        /\ promises[Request(b, 1)].state = "fulfilled"
        /\ promises[Request(b, 1)].value = 10

\* C12: the flush is deferred by a microtask and then by a next tick, so no
\* dispatchQueue call runs while a caller's continuation is still waiting in
\* the microtask queue, and the load that continuation makes is appended to
\* the requests already queued: it is dispatched together with the loads
\* made while it was waiting.
C12_PendingContinuationJoinsBatch ==
    /\ [][DispatchStep =>
             \A i \in DOMAIN microtasks : microtasks[i].type # "user"]_vars
    /\ [][(LoadStep /\ ~running) =>
             /\ Head(microtasks).type = "user"
             /\ queue' = Append(queue, [key |-> Head(microtasks).key,
                                        resolve |-> Len(promises')])]_vars

\* load(2) by the task and load(1) by a continuation it left pending went
\* out in one invocation, [2, 1]
C12_Witness ==
    /\ Idle
    /\ burst.keys = <<2>>
    /\ Len(promises) = 2
    /\ promises[1].parent = None /\ promises[2].parent = None
    /\ calls = << <<2, 1>> >>

\* C13 (as claimed): at most one flush is pending at any time.
C13_AtMostOneFlush == PendingFlushes <= 1

\* C13 (amended): every load call schedules one more flush, whether or not
\* one is already scheduled, so at least as many flushes are pending as
\* requests are queued.
C13_EveryLoadArms ==
    /\ [][LoadStep => PendingFlushes' = PendingFlushes + 1]_vars
    /\ [](PendingFlushes >= Len(queue))

\* three loads queued, three flushes pending
C13_Witness ==
    /\ Len(queue) = 3
    /\ PendingFlushes = 3

\* C14: dispatchQueue is called once per load call: the calls made and the
\* calls still scheduled add up to the number of loads.  A call that finds
\* requests in the queue invokes the loader function once and leaves none of
\* them in the queue; a call that finds the queue empty invokes nothing.
C14_OneDispatchPerLoad ==
    /\ [](dispatches + PendingFlushes = Len(promises))
    /\ [][DispatchStep =>
             IF queue = <<>>
             THEN calls' = calls
             ELSE /\ Len(calls') = Len(calls) + 1
                  /\ \A i \in DOMAIN queue' : queue'[i].resolve > Len(promises)]_vars

\* three loads of one task: three dispatchQueue calls, one invocation
C14_Witness ==
    /\ Idle
    /\ burst.clean
    /\ Len(burst.keys) = 3
    /\ dispatches = 3
    /\ Len(calls) = burst.base + 1

\* C15: a dispatchQueue call that finds the queue empty changes nothing: no
\* invocation, same queue, same invocations in flight, same promises, same
\* microtasks.  No invocation ever has an empty key list.
C15_EmptyFlushIsNoOp ==
    /\ [][(DispatchStep /\ queue = <<>>) =>
             /\ queue' = queue
             /\ calls' = calls
             /\ batches' = batches
             /\ promises' = promises
             /\ microtasks' = microtasks]_vars
    /\ [](\A b \in DOMAIN calls : calls[b] # <<>>)

\* two dispatchQueue calls, one invocation, still in flight
C15_Witness ==
    /\ Idle
    /\ dispatches = 2
    /\ Len(calls) = 1
    /\ batches[1].state = "pending"
    /\ promises[1].state = "pending"

\* C16: once every scheduled flush has run and every loader promise has
\* completed, the loader is back in Idle: empty queue, no flush scheduled,
\* no invocation in flight, no request pending.
C16_BackToIdle ==
    ( /\ ~running
      /\ microtasks = <<>>
      /\ PendingFlushes = 0
      /\ \A b \in DOMAIN batches : batches[b].state \in {"delivered", "rejected"} )
    => /\ queue = <<>>
       /\ \A b \in DOMAIN batches : batches[b].state # "pending"
       /\ \A id \in DOMAIN promises : promises[id].state # "pending"

\* C17: whenever the queue holds a request, a dispatchQueue call is
\* scheduled and has not run yet.
C17_QueuedRequestHasFlush ==
    queue # <<>> => PendingFlushes >= 1

\* the runtime is between two next ticks with a request queued
C17_Witness ==
    /\ ~running
    /\ queue # <<>>
    /\ nextTicks >= 1
    /\ dispatches >= 1

====
